---- MODULE Spec2Model ----
(***************************************************************************)
(* HERMES packed-ciphertext engine: SlotEditor (HERMES_PACK_ADD,           *)
(* HERMES_PACK_RMV), Aggregator (HERMES_PACK_GROUP_SUM,                    *)
(* HERMES_PACK_GLOBAL_SUM, HERMES_SUM_BFV), Codec (HERMES_PACK_CONVERT,    *)
(* HERMES_DEC_VECTOR_BFV), the context singleton getGC and the key         *)
(* material produced by generateKeypair.                                   *)
(*                                                                         *)
(* A ciphertext is modelled by the packed plaintext vector it decrypts to: *)
(* a sequence of BatchSize signed integers, slot i at position i+1, each   *)
(* the centred representative modulo the plaintext modulus, which is what  *)
(* Decrypt followed by GetPackedValue returns.  The homomorphic operations *)
(* of the engine act slot-wise on that vector and reduce modulo the        *)
(* plaintext modulus.                                                      *)
(***************************************************************************)
EXTENDS Integers, Sequences, FiniteSets, TLC

\* ------------------------------------------------------------------------
\* Scheme parameters
\* ------------------------------------------------------------------------

\* params.SetPlaintextModulus(268369921)
PlaintextModulus == 268369921

\* "supports signed plaintext integers up to approximately +-134 million"
HalfModulus == (PlaintextModulus - 1) \div 2

\* cc->GetEncodingParams()->GetBatchSize(): the number of slots N
BatchSize == 4

\* length of the longest vector Encode is started from
MaxInitLen == 3

Slots == 0 .. (BatchSize - 1)

\* centred representative of x modulo the plaintext modulus
Centered(x) ==
  LET r == x % PlaintextModulus
  IN  IF r > HalfModulus THEN r - PlaintextModulus ELSE r

\* MakePackedPlaintext throws for a value whose magnitude reaches the
\* modulus; a value beyond +-(p-1)/2 is accepted and wraps to the other sign
Encodable(x) == (x > -PlaintextModulus) /\ (x < PlaintextModulus)

\* the absent ciphertext (SQL NULL / nullptr)
NoCt == << >>

ZeroVec == [i \in 1 .. BatchSize |-> 0]

\* value of slot i of a ciphertext
Slot(ct, i) == ct[i + 1]

\* std::vector<int64_t> vec(slot_count, fill); vec[index] = at
OneHot(fill, index, at) ==
  [i \in 1 .. BatchSize |-> IF i = index + 1 THEN at ELSE fill]

\* cc->EvalAdd(a, b)
EvalAdd(a, b) == [i \in 1 .. BatchSize |-> Centered(a[i] + b[i])]

\* cc->EvalMult(ct, pt_mask) with a 0/1 mask
EvalMult(ct, mask) == [i \in 1 .. BatchSize |-> Centered(ct[i] * mask[i])]

\* generateKeypair: rot_indices = +-(1, 2, 4, ...) while i < slot_count
RECURSIVE RotIndicesFrom(_)
RotIndicesFrom(i) ==
  IF i < BatchSize THEN {i, -i} \cup RotIndicesFrom(2 * i) ELSE {}

rot_indices == RotIndicesFrom(1)

\* cc->EvalAtIndex(ct, offset) needs the Galois key registered for offset:
\* the engine looks the key up and throws when there is none, it does not
\* compose a rotation from the keys of other offsets
HasRotationKey(offset) == offset \in rot_indices

\* the rotation taken in the other direction (offset negated)
EvalAtIndex_Right(ct, offset) ==
  [i \in 1 .. BatchSize |-> ct[((i - 1 - offset) % BatchSize) + 1]]

\* cc->EvalAtIndex(ct, offset): left rotation, slot i receives slot i+offset
EvalAtIndex(ct, offset) ==
  [i \in 1 .. BatchSize |-> ct[((i - 1 + offset) % BatchSize) + 1]]

\* an error return: *is_null = 1; *err = 1; return nullptr
ErrorResult == [is_null |-> TRUE, err |-> TRUE, ct |-> NoCt]

OkResult(ct) == [is_null |-> FALSE, err |-> FALSE, ct |-> ct]

\* ------------------------------------------------------------------------
\* SlotEditor
\* ------------------------------------------------------------------------

\* the range check with index > slot_count in place of index >= slot_count
HERMES_PACK_ADD_OffByOne(ct_old, new_val, index) ==
  IF index < 0 \/ index > BatchSize
  THEN ErrorResult
  ELSE IF ~Encodable(new_val)
       THEN ErrorResult
       ELSE OkResult(EvalAdd(ct_old, OneHot(0, index, Centered(new_val))))

\* the one-hot value overwrites the slot instead of being added to it
HERMES_PACK_ADD_Replace(ct_old, new_val, index) ==
  IF index < 0 \/ index >= BatchSize
  THEN ErrorResult
  ELSE IF ~Encodable(new_val)
       THEN ErrorResult
       ELSE OkResult([i \in 1 .. BatchSize |->
                        IF i = index + 1 THEN Centered(new_val) ELSE ct_old[i]])

\* params.SetMultiplicativeDepth(2)
MultiplicativeDepth == 2

\* EvalMult calls on the path from the argument of HERMES_PACK_RMV to its
\* result: the mask alone in the tail branch, steps 1 and 5 otherwise
MultsOfRemove(index, k) == IF index = k - 1 THEN 1 ELSE 2

\* HERMES_PACK_ADD(ciphertext, val, index)
HERMES_PACK_ADD(ct_old, new_val, index) ==
  IF index < 0 \/ index >= BatchSize
  THEN ErrorResult
  ELSE IF ~Encodable(new_val)
       THEN ErrorResult
       ELSE OkResult(EvalAdd(ct_old, OneHot(0, index, Centered(new_val))))

\* steps 1-4 only: the duplicated tail slot is left in place
RMV_Interior_NoTailClear(ct, index, k) ==
  LET ct_cleared  == EvalMult(ct, OneHot(1, index, 0))
      ct_last_val == EvalMult(ct, OneHot(0, k - 1, 1))
      ct_shifted  == EvalAtIndex(ct_last_val, (k - 1) - index)
  IN  EvalAdd(ct_cleared, ct_shifted)

\* steps 1-5 of HERMES_PACK_RMV for an interior slot
RMV_Interior(ct, index, k) ==
  LET ct_cleared  == EvalMult(ct, OneHot(1, index, 0))
      ct_last_val == EvalMult(ct, OneHot(0, k - 1, 1))
      ct_shifted  == EvalAtIndex(ct_last_val, (k - 1) - index)
      ct_updated  == EvalAdd(ct_cleared, ct_shifted)
      ct_final    == EvalMult(ct_updated, OneHot(1, k - 1, 0))
  IN  ct_final

\* the range check with index > k in place of index >= k
HERMES_PACK_RMV_OffByOne(ct, index, k) ==
  IF index < 0 \/ index > k \/ k > BatchSize
  THEN ErrorResult
  ELSE IF index = k - 1
       THEN OkResult(EvalMult(ct, OneHot(1, index, 0)))
       ELSE IF ~HasRotationKey((k - 1) - index)
            THEN ErrorResult
            ELSE OkResult(RMV_Interior(ct, index, k))

\* HERMES_PACK_RMV(ciphertext, index_to_remove, current_slot_count).
\* The result is the ciphertext handed back; its base64 transport (the
\* caller's result buffer in the tail branch, a malloc'ed one otherwise) is
\* below this model.
HERMES_PACK_RMV(ct, index, k) ==
  IF index < 0 \/ index >= k \/ k > BatchSize
  THEN ErrorResult
  ELSE IF index = k - 1
       THEN OkResult(EvalMult(ct, OneHot(1, index, 0)))
       ELSE IF ~HasRotationKey((k - 1) - index)
            THEN ErrorResult
            ELSE OkResult(RMV_Interior(ct, index, k))

\* ------------------------------------------------------------------------
\* Aggregator
\* ------------------------------------------------------------------------

\* cc->MakePackedPlaintext(v): v in the leading slots, zero elsewhere
MakePackedPlaintext(v) ==
  [i \in 1 .. BatchSize |-> IF i <= Len(v) THEN Centered(v[i]) ELSE 0]

\* a NULL return without the error flag: *is_null = 1; return nullptr
NullResult == [is_null |-> TRUE, err |-> FALSE, ct |-> NoCt]

\* a base64 string argument: SQL NULL, an undecodable string, or a ciphertext
NullArg == [kind |-> "null", ct |-> NoCt]
BadArg == [kind |-> "bad", ct |-> NoCt]
CtArg(c) == [kind |-> "ct", ct |-> c]

\* HERMES_ENC_SINGULAR(val): val in slot 0, zero in every other slot
HERMES_ENC_SINGULAR(val) ==
  IF ~Encodable(val) THEN ErrorResult
  ELSE OkResult(OneHot(0, 0, Centered(val)))

\* new CipherAccState(): acc empty, initialized = false
NewCipherAccState == [acc |-> NoCt, initialized |-> FALSE]

\* HERMES_PACK_GLOBAL_SUM_clear: acc.reset(); initialized = false
HERMES_PACK_GLOBAL_SUM_clear(state) == [acc |-> NoCt, initialized |-> FALSE]

\* every operand replaces the accumulator
HERMES_PACK_GLOBAL_SUM_add_Overwrite(state, ct) ==
  [acc |-> ct, initialized |-> TRUE]

\* cc->EvalSub(a, b)
EvalSub(a, b) == [i \in 1 .. BatchSize |-> Centered(a[i] - b[i])]

\* later operands are subtracted from the accumulator
HERMES_PACK_GLOBAL_SUM_add_Sub(state, ct) ==
  IF ~state.initialized
  THEN [acc |-> ct, initialized |-> TRUE]
  ELSE [acc |-> EvalSub(state.acc, ct), initialized |-> state.initialized]

\* HERMES_PACK_GLOBAL_SUM_add with a deserialized operand
HERMES_PACK_GLOBAL_SUM_add(state, ct) ==
  IF ~state.initialized
  THEN [acc |-> ct, initialized |-> TRUE]
  ELSE [acc |-> EvalAdd(state.acc, ct), initialized |-> state.initialized]

\* the accumulator is returned without looking at initialized
HERMES_PACK_GLOBAL_SUM_NoCheck(state) ==
  OkResult(IF state.initialized THEN state.acc ELSE ZeroVec)

\* HERMES_PACK_GLOBAL_SUM: the final result of the aggregate
HERMES_PACK_GLOBAL_SUM(state) ==
  IF ~state.initialized THEN NullResult ELSE OkResult(state.acc)

\* new HermesSumContext(): acc empty, initialized = false
NewHermesSumContext == [acc |-> NoCt, initialized |-> FALSE]

\* HERMES_SUM_BFV_clear: only the flag is cleared
HERMES_SUM_BFV_clear(ctx) == [acc |-> ctx.acc, initialized |-> FALSE]

\* the operand is added to whatever accumulator is left, flag or no flag
HERMES_SUM_BFV_add_Stale(ctx, ct) ==
  [acc |-> IF ctx.acc # NoCt THEN EvalAdd(ctx.acc, ct) ELSE ct,
   initialized |-> TRUE]

\* HERMES_SUM_BFV_add with a deserialized operand
HERMES_SUM_BFV_add(ctx, ct) ==
  [acc |-> IF ctx.initialized THEN EvalAdd(ctx.acc, ct) ELSE ct,
   initialized |-> TRUE]

\* HERMES_SUM_BFV: decrypts the accumulator and returns slot 0
HERMES_SUM_BFV(ctx) ==
  IF ~ctx.initialized
  THEN [is_null |-> TRUE, err |-> FALSE, val |-> 0]
  ELSE [is_null |-> FALSE, err |-> FALSE, val |-> Slot(ctx.acc, 0)]

\* new SumState(): sum = 0
NewSumState == [sum |-> 0]

\* HERMES_PACK_GROUP_SUM_clear: sum = 0
HERMES_PACK_GROUP_SUM_clear(state) == [sum |-> 0]

\* the row value replaces the running sum
HERMES_PACK_GROUP_SUM_add_Assign(state, val) == [sum |-> val]

\* HERMES_PACK_GROUP_SUM_add: sum += val
HERMES_PACK_GROUP_SUM_add(state, val) == [sum |-> state.sum + val]

\* HERMES_PACK_GROUP_SUM has no try block: MakePackedPlaintext({sum}) throws
\* out of the UDF when the sum cannot be encoded
GroupSumThrows(state) == ~Encodable(state.sum)

\* HERMES_PACK_GROUP_SUM: encrypts {sum}; is_null is never set
HERMES_PACK_GROUP_SUM(state) == OkResult(MakePackedPlaintext(<< state.sum >>))

\* the result of a Finalize that has not been called since the last change
NotCalled == [called |-> FALSE, threw |-> FALSE, res |-> NullResult]

Returned(r) == [called |-> TRUE, threw |-> FALSE, res |-> r]

Threw == [called |-> TRUE, threw |-> TRUE, res |-> NullResult]

\* ------------------------------------------------------------------------
\* Codec
\* ------------------------------------------------------------------------

\* an INT argument: SQL NULL or a value
NullInt == [null |-> TRUE, val |-> 0]
IntArg(v) == [null |-> FALSE, val |-> v]

\* PackState right after HERMES_PACK_CONVERT_init
NewPackState == [values |-> << >>]

\* HERMES_PACK_CONVERT_clear
HERMES_PACK_CONVERT_clear(state) == [values |-> << >>]

\* a NULL row is read as the integer 0 and appended like any other
HERMES_PACK_CONVERT_add_NoSkip(state, arg) ==
  [values |-> Append(state.values, arg.val)]

\* HERMES_PACK_CONVERT_add: a NULL row is skipped, anything else is appended
HERMES_PACK_CONVERT_add(state, arg) ==
  IF arg.null THEN state ELSE [values |-> Append(state.values, arg.val)]

\* the encoder throws on a value whose magnitude reaches the modulus
PackConvertThrows(state) ==
  \E i \in DOMAIN state.values : ~Encodable(state.values[i])

\* HERMES_PACK_CONVERT for a state the encoder can hold: NULL (error flag
\* untouched) for an empty group, else the encryption of the packed values
HERMES_PACK_CONVERT(state) ==
  IF state.values = << >>
  THEN NullResult
  ELSE OkResult(MakePackedPlaintext(state.values))

\* a decoded result: NULL with the error flag, or the printed values
DecodeError == [is_null |-> TRUE, err |-> TRUE, vals |-> << >>]
Decoded(v) == [is_null |-> FALSE, err |-> FALSE, vals |-> v]

\* HERMES_DEC_VECTOR_BFV(base64_ct): std::to_string(values[0])
HERMES_DEC_VECTOR_BFV(arg, sk_present) ==
  IF arg.kind # "ct"
  THEN DecodeError
  ELSE IF ~sk_present
       THEN DecodeError
       ELSE Decoded(<< arg.ct[1] >>)

\* what the last HERMES_PACK_CONVERT call did with the values it was given
NoPack == [called |-> FALSE, threw |-> FALSE, vals |-> << >>,
           res |-> NullResult]

\* what the last HERMES_DEC_VECTOR_BFV call returned
NoDecode == [called |-> FALSE, arg |-> BadArg, res |-> DecodeError]

\* the key files under kPubKeyPath, kSecKeyPath and kGaloisKeyPath
AllKeyFiles == {"pub", "sec", "galois"}

\* ------------------------------------------------------------------------
\* Context and keys
\* ------------------------------------------------------------------------

\* the server threads that can run a UDF at the same time
Threads == {1, 2}

\* global_ctx before the first getGC: guard clear, nothing constructed
NoContext == [state |-> "uninit", built |-> 0]

\* no byte string has been armored
NoArmor == [in |-> << >>, out |-> << >>, back |-> << >>, pc |-> "new"]

\* the UDFs of hpdic_hermes_singular.cpp that begin with InitBFVContext()
SingularUdfs == {"HERMES_SUM_BFV_add", "HERMES_SUM_BFV",
                 "HERMES_DEC_SINGULAR_BFV", "HERMES_ENC_SINGULAR_BFV"}

\* a thread outside that plugin; ctx and kp are what its last call worked with
NoSingularCall == [pc |-> "idle", udf |-> "none", ctx |-> 0, kp |-> 0]

\* HERMES_PACK_ADD as it runs after getGC: loadPublicKey throws on a
\* missing file and the catch (...) turns that into the error result
KeyedADD(ct_old, new_val, index, fs) ==
  IF "pub" \notin fs
  THEN ErrorResult
  ELSE HERMES_PACK_ADD(ct_old, new_val, index)

\* HERMES_PACK_RMV as it runs after getGC: the range check, then
\* loadSecretKey, whose throw is caught the same way
KeyedRMV(ct, index, k, fs) ==
  IF index < 0 \/ index >= k \/ k > BatchSize
  THEN ErrorResult
  ELSE IF "sec" \notin fs
       THEN ErrorResult
       ELSE HERMES_PACK_RMV(ct, index, k)

\* ------------------------------------------------------------------------
\* State
\* ------------------------------------------------------------------------

VARIABLES
  packed_ct,    \* packed_salaries.packed_ct of the edited row
  slot_count,   \* packed_salaries.slot_count: the caller-tracked k
  last,         \* the most recent SlotEditor call: arguments and result
  alive,        \* the server process has not been ended by an exception
  gsum,         \* CipherAccState of each HERMES_PACK_GLOBAL_SUM session
  gops,         \* operands each session has folded since its last clear
  gout,         \* what each session's last HERMES_PACK_GLOBAL_SUM returned
  bfv,          \* HermesSumContext of the HERMES_SUM_BFV session
  bops,         \* operands it has folded since its last clear
  bout,         \* what its last HERMES_SUM_BFV returned
  grp,          \* SumState of the HERMES_PACK_GROUP_SUM session
  rops,         \* integers it has added since its last clear
  rout,         \* what its last HERMES_PACK_GROUP_SUM returned
  local_sums,   \* packed_salaries.local_sum_ct, one entry per group
  global_sum,   \* global_sum.result_ct
  pack,         \* PackState of the HERMES_PACK_CONVERT session
  prows,        \* the rows handed to HERMES_PACK_CONVERT_add since its clear
  pout,         \* what its last HERMES_PACK_CONVERT did
  dout,         \* what the last HERMES_DEC_VECTOR_BFV returned
  files,        \* the key files present on disk
  made,         \* makeBfvContext calls made inside the packing plugin
  gc,           \* getGC's function-local static: its guard and instance
  tpc,          \* where each server thread stands in a SlotEditor call
  tctx,         \* the instance each thread's latest getGC returned
  depth,        \* masked multiplications the stored packed_ct has been through
  buffer,       \* the static std::string of HERMES_PACK_GLOBAL_SUM
  gpc,          \* where each session stands in HERMES_PACK_GLOBAL_SUM
  g_context,    \* hpdic_hermes_singular: the context instance last assigned
  g_kp,         \* the context instance the global key pair was made under
  g_context_initialized,
  spc,          \* where each thread stands in a call of that plugin
  armor         \* a byte string, its encodeBase64 and the decodeBase64 of that

editVars == << packed_ct, slot_count, last >>

globalVars == << gsum, gops, gout >>

bfvVars == << bfv, bops, bout >>

groupVars == << grp, rops, rout >>

tierVars == << local_sums, global_sum >>

codecVars == << pack, prows, pout, dout >>

\* the aggregate sessions and the two tables they fill
sessionVars == << globalVars, bfvVars, groupVars, tierVars >>

\* the state outside the SlotEditor row and the aggregate sessions
\* the static of getGC and the threads calling it
ctxVars == << gc, tpc, tctx >>

\* the result buffer shared by every HERMES_PACK_GLOBAL_SUM call
bufVars == << buffer, gpc >>

\* the globals of the standalone singular plugin and the threads calling it
singVars == << g_context, g_kp, g_context_initialized, spc >>

envVars == << codecVars, files, made, ctxVars, depth, bufVars, singVars,
             armor >>

vars == << packed_ct, slot_count, last, alive, gsum, gops, gout,
           bfv, bops, bout, grp, rops, rout, local_sums, global_sum,
           pack, prows, pout, dout, files, made, gc, tpc, tctx, depth,
           buffer, gpc, g_context, g_kp, g_context_initialized, spc,
           armor >>

\* the aggregate sessions that can be open at the same time
Sessions == {1, 2}

\* makeBfvContext calls followed inside one plugin
MaxContexts == 3

\* operands folded per session, rows per group, groups per table
MaxOps == 3
MaxRows == 3
MaxGroups == 2

\* salaries packed by HERMES_PACK_CONVERT
InitVals == {1000, 2000, 1500}

\* values inserted by HERMES_PACK_ADD
InsertVals == {9999, -2000}

\* plaintext rows summed per group
RowVals == {5200, 1, HalfModulus}

\* ciphertexts handed to the ciphertext accumulators
AggCts == { MakePackedPlaintext(<< 5200, 1 >>),
            MakePackedPlaintext(<< 4800 >>),
            MakePackedPlaintext(<< HalfModulus, -7 >>) }

AggArgs == {NullArg, BadArg} \cup {CtArg(c) : c \in AggCts}

\* HERMES_ENC_SINGULAR(salary) of each row value
SingularArgs == {NullArg} \cup {CtArg(HERMES_ENC_SINGULAR(v).ct) : v \in RowVals}

\* the salary column of the summed rows
RowArgs == {NullInt} \cup {IntArg(v) : v \in RowVals}

\* vectors of length n over a set of values
RECURSIVE VecsOfLen(_, _)
VecsOfLen(n, vals) ==
  IF n = 0 THEN {<< >>}
  ELSE {Append(v, x) : v \in VecsOfLen(n - 1, vals), x \in vals}

\* std::vector values of HERMES_PACK_CONVERT: leading slots, zero elsewhere
Pad(v) == [i \in 1 .. BatchSize |-> IF i <= Len(v) THEN v[i] ELSE 0]

NoCall == [op |-> "none", index |-> 0, k |-> 0, val |-> 0,
           pre |-> NoCt, res |-> ErrorResult]

NoGlobalSum == [called |-> FALSE, covered |-> 0, res |-> NullResult]

\* every aggregate session right after its _init, both tables empty
AggIdle ==
  /\ alive = TRUE
  /\ gsum = [s \in Sessions |-> NewCipherAccState]
  /\ gops = [s \in Sessions |-> << >>]
  /\ gout = [s \in Sessions |-> NotCalled]
  /\ bfv = NewHermesSumContext
  /\ bops = << >>
  /\ bout = NotCalled
  /\ grp = NewSumState
  /\ rops = << >>
  /\ rout = NotCalled
  /\ local_sums = << >>
  /\ global_sum = NoGlobalSum

\* no codec call made yet, every key file in place
EnvIdle ==
  /\ pack = NewPackState
  /\ prows = << >>
  /\ pout = NoPack
  /\ dout = NoDecode
  /\ files = AllKeyFiles
  /\ made = 0
  /\ gc = NoContext
  /\ tpc = [t \in Threads |-> "idle"]
  /\ tctx = [t \in Threads |-> 0]
  /\ depth = 0
  /\ buffer = NoCt
  /\ gpc = [s \in Sessions |-> "idle"]
  /\ g_context = 0
  /\ g_kp = 0
  /\ g_context_initialized = FALSE
  /\ spc = [t \in Threads |-> NoSingularCall]
  /\ armor = NoArmor

\* no packed row is being edited
EditIdle ==
  /\ packed_ct = ZeroVec
  /\ slot_count = 0
  /\ last = NoCall

\* the packed row written by HERMES_PACK_CONVERT with slot_count = COUNT
Init ==
  /\ \E n \in 1 .. MaxInitLen : \E v \in VecsOfLen(n, InitVals) :
       /\ packed_ct = Pad(v)
       /\ slot_count = n
  /\ last = NoCall
  /\ AggIdle
  /\ EnvIdle

aggVars == << alive, gsum, gops, gout, bfv, bops, bout, grp, rops, rout,
              local_sums, global_sum, envVars >>

\* HERMES_PACK_RMV computing in place: the result lands in its argument
CallRMV_InPlace(index, k) ==
  /\ LET r == HERMES_PACK_RMV(packed_ct, index, k)
     IN  /\ last' = [op |-> "RMV", index |-> index, k |-> k, val |-> 0,
                     pre |-> packed_ct, res |-> r]
         /\ packed_ct' = IF r.err THEN packed_ct ELSE r.ct
  /\ UNCHANGED slot_count
  /\ UNCHANGED aggVars

\* SELECT HERMES_PACK_RMV(packed_ct, index, k): a call with any arguments
CallRMV(index, k) ==
  /\ last' = [op |-> "RMV", index |-> index, k |-> k, val |-> 0,
              pre |-> packed_ct, res |-> HERMES_PACK_RMV(packed_ct, index, k)]
  /\ UNCHANGED << packed_ct, slot_count >>
  /\ UNCHANGED aggVars

\* SELECT HERMES_PACK_ADD(packed_ct, val, index): a call with any arguments
CallADD(val, index) ==
  /\ last' = [op |-> "ADD", index |-> index, k |-> slot_count, val |-> val,
              pre |-> packed_ct, res |-> HERMES_PACK_ADD(packed_ct, val, index)]
  /\ UNCHANGED << packed_ct, slot_count >>
  /\ UNCHANGED aggVars

\* UPDATE ... SET packed_ct = HERMES_PACK_ADD(packed_ct, v, slot_count),
\*                slot_count = slot_count + 1
UpdateInsert(val) ==
  /\ slot_count < BatchSize
  /\ LET r == HERMES_PACK_ADD(packed_ct, val, slot_count)
     IN  /\ last' = [op |-> "INSERT", index |-> slot_count, k |-> slot_count,
                     val |-> val, pre |-> packed_ct, res |-> r]
         /\ IF r.err
            THEN UNCHANGED << packed_ct, slot_count >>
            ELSE /\ packed_ct' = r.ct
                 /\ slot_count' = slot_count + 1
  /\ UNCHANGED aggVars

\* UPDATE ... SET packed_ct = HERMES_PACK_RMV(packed_ct, i, slot_count),
\*                slot_count = slot_count - 1
UpdateRemove(index) ==
  /\ 0 <= index /\ index < slot_count
  /\ LET r == HERMES_PACK_RMV(packed_ct, index, slot_count)
     IN  /\ last' = [op |-> "REMOVE", index |-> index, k |-> slot_count,
                     val |-> 0, pre |-> packed_ct, res |-> r]
         /\ IF r.err
            THEN UNCHANGED << packed_ct, slot_count >>
            ELSE /\ packed_ct' = r.ct
                 /\ slot_count' = slot_count - 1
  /\ UNCHANGED aggVars

Next ==
  \/ \E index \in -1 .. BatchSize : \E k \in -1 .. (BatchSize + 1) :
       CallRMV(index, k)
  \/ \E val \in InsertVals : \E index \in -1 .. BatchSize :
       CallADD(val, index)
  \/ \E val \in InsertVals : UpdateInsert(val)
  \/ \E index \in Slots : UpdateRemove(index)

Spec == Init /\ [][Next]_vars

\* values handed to HERMES_PACK_ADD by a direct call: the inserted salaries,
\* the largest centred residue, and the plaintext modulus itself
AddVals == InsertVals \cup {HalfModulus, PlaintextModulus}

NextInsert ==
  \/ \E val \in AddVals : \E index \in -1 .. BatchSize :
       CallADD(val, index)
  \/ \E val \in InsertVals : UpdateInsert(val)

SpecInsert == Init /\ [][NextInsert]_vars

\* ------------------------------------------------------------------------
\* Aggregate sessions: one action per UDF entry point
\* ------------------------------------------------------------------------

\* HERMES_PACK_GLOBAL_SUM_clear of session s
GlobalSumClear(s) ==
  /\ alive
  /\ gsum' = [gsum EXCEPT ![s] = HERMES_PACK_GLOBAL_SUM_clear(@)]
  /\ gops' = [gops EXCEPT ![s] = << >>]
  /\ gout' = [gout EXCEPT ![s] = NotCalled]
  /\ UNCHANGED << editVars, envVars, alive, bfvVars, groupVars, tierVars >>

\* HERMES_PACK_GLOBAL_SUM_add of session s: a NULL row is skipped, an
\* undecodable operand throws out of the UDF (there is no try block)
GlobalSumAdd(s, arg) ==
  /\ alive
  /\ Len(gops[s]) < MaxOps
  /\ IF arg.kind = "null"
     THEN UNCHANGED << alive, globalVars >>
     ELSE IF arg.kind = "bad"
          THEN /\ alive' = FALSE
               /\ UNCHANGED globalVars
          ELSE /\ gsum' = [gsum EXCEPT
                             ![s] = HERMES_PACK_GLOBAL_SUM_add(@, arg.ct)]
               /\ gops' = [gops EXCEPT ![s] = Append(@, arg.ct)]
               /\ gout' = [gout EXCEPT ![s] = NotCalled]
               /\ UNCHANGED alive
  /\ UNCHANGED << editVars, envVars, bfvVars, groupVars, tierVars >>

\* HERMES_PACK_GLOBAL_SUM of session s
GlobalSum(s) ==
  /\ alive
  /\ gout' = [gout EXCEPT ![s] = Returned(HERMES_PACK_GLOBAL_SUM(gsum[s]))]
  /\ UNCHANGED << editVars, envVars, alive, gsum, gops, bfvVars, groupVars,
                  tierVars >>

\* HERMES_SUM_BFV_clear
SumBfvClear ==
  /\ alive
  /\ bfv' = HERMES_SUM_BFV_clear(bfv)
  /\ bops' = << >>
  /\ bout' = NotCalled
  /\ UNCHANGED << editVars, envVars, alive, globalVars, groupVars, tierVars >>

\* HERMES_SUM_BFV_add: a NULL row is skipped, an undecodable operand is
\* caught and reported (return 1) with the state untouched
SumBfvAdd(arg) ==
  /\ alive
  /\ Len(bops) < MaxOps
  /\ IF arg.kind = "ct"
     THEN /\ bfv' = HERMES_SUM_BFV_add(bfv, arg.ct)
          /\ bops' = Append(bops, arg.ct)
          /\ bout' = NotCalled
     ELSE UNCHANGED bfvVars
  /\ UNCHANGED << editVars, envVars, alive, globalVars, groupVars, tierVars >>

\* HERMES_SUM_BFV_reset: clear followed by add
SumBfvReset(arg) ==
  /\ alive
  /\ IF arg.kind = "ct"
     THEN /\ bfv' = HERMES_SUM_BFV_add(HERMES_SUM_BFV_clear(bfv), arg.ct)
          /\ bops' = << arg.ct >>
     ELSE /\ bfv' = HERMES_SUM_BFV_clear(bfv)
          /\ bops' = << >>
  /\ bout' = NotCalled
  /\ UNCHANGED << editVars, envVars, alive, globalVars, groupVars, tierVars >>

\* HERMES_SUM_BFV
SumBfv ==
  /\ alive
  /\ bout' = Returned(HERMES_SUM_BFV(bfv))
  /\ UNCHANGED << editVars, envVars, alive, bfv, bops, globalVars, groupVars,
                  tierVars >>

\* HERMES_PACK_GROUP_SUM_clear
GroupSumClear ==
  /\ alive
  /\ grp' = HERMES_PACK_GROUP_SUM_clear(grp)
  /\ rops' = << >>
  /\ rout' = NotCalled
  /\ UNCHANGED << editVars, envVars, alive, globalVars, bfvVars, tierVars >>

\* HERMES_PACK_GROUP_SUM_add: a NULL row is skipped
GroupSumAdd(arg) ==
  /\ alive
  /\ Len(rops) < MaxOps
  /\ IF arg.null
     THEN UNCHANGED groupVars
     ELSE /\ grp' = HERMES_PACK_GROUP_SUM_add(grp, arg.val)
          /\ rops' = Append(rops, arg.val)
          /\ rout' = NotCalled
  /\ UNCHANGED << editVars, envVars, alive, globalVars, bfvVars, tierVars >>

\* HERMES_PACK_GROUP_SUM
GroupSum ==
  /\ alive
  /\ IF GroupSumThrows(grp)
     THEN /\ alive' = FALSE
          /\ rout' = Threw
     ELSE /\ rout' = Returned(HERMES_PACK_GROUP_SUM(grp))
          /\ UNCHANGED alive
  /\ UNCHANGED << editVars, envVars, grp, rops, globalVars, bfvVars, tierVars >>

\* the ciphertext accumulators HERMES_PACK_GLOBAL_SUM and HERMES_SUM_BFV
InitAgg == EditIdle /\ AggIdle /\ EnvIdle

NextAgg ==
  \/ GlobalSumClear(1)
  \/ \E arg \in AggArgs : GlobalSumAdd(1, arg)
  \/ GlobalSum(1)
  \/ SumBfvClear
  \/ \E arg \in AggArgs : SumBfvAdd(arg)
  \/ \E arg \in AggArgs : SumBfvReset(arg)
  \/ SumBfv

SpecAgg == InitAgg /\ [][NextAgg]_vars

\* two HERMES_PACK_GLOBAL_SUM sessions fed independently
NextPerm ==
  \E s \in Sessions :
    \/ GlobalSumClear(s)
    \/ \E arg \in AggArgs : GlobalSumAdd(s, arg)
    \/ GlobalSum(s)

SpecPerm == InitAgg /\ [][NextPerm]_vars

\* the plaintext group sum next to the ciphertext fold of the same rows
NextGroup ==
  \/ GroupSumClear
  \/ \E arg \in RowArgs : GroupSumAdd(arg)
  \/ GroupSum
  \/ GlobalSumClear(1)
  \/ \E arg \in SingularArgs : GlobalSumAdd(1, arg)
  \/ GlobalSum(1)

SpecGroup == InitAgg /\ [][NextGroup]_vars

\* ------------------------------------------------------------------------
\* Two-tier aggregation: the statements of run_pack.sh steps 6 and 7
\* ------------------------------------------------------------------------

\* _clear, then _add for every row of the group
RECURSIVE GroupSumOver(_)
GroupSumOver(rows) ==
  IF rows = << >> THEN HERMES_PACK_GROUP_SUM_clear(NewSumState)
  ELSE HERMES_PACK_GROUP_SUM_add(GroupSumOver(SubSeq(rows, 1, Len(rows) - 1)),
                                 rows[Len(rows)])

\* _clear, then _add for every local_sum_ct of the table
RECURSIVE GlobalSumOver(_)
GlobalSumOver(cts) ==
  IF cts = << >> THEN HERMES_PACK_GLOBAL_SUM_clear(NewCipherAccState)
  ELSE HERMES_PACK_GLOBAL_SUM_add(GlobalSumOver(SubSeq(cts, 1, Len(cts) - 1)),
                                  cts[Len(cts)])

\* the sum of a sequence of integers
RECURSIVE SeqSum(_)
SeqSum(q) == IF q = << >> THEN 0 ELSE q[1] + SeqSum(Tail(q))

\* UPDATE packed_salaries SET local_sum_ct =
\*   (SELECT HERMES_PACK_GROUP_SUM(salary) FROM employees WHERE dept = ...)
LocalSumStatement(rows) ==
  /\ alive
  /\ Len(local_sums) < MaxGroups
  /\ LET state == GroupSumOver(rows)
     IN  IF GroupSumThrows(state)
         THEN /\ alive' = FALSE
              /\ UNCHANGED local_sums
         ELSE /\ local_sums' = Append(local_sums,
                                 [ct |-> HERMES_PACK_GROUP_SUM(state).ct,
                                  total |-> SeqSum(rows)])
              /\ UNCHANGED alive
  /\ UNCHANGED << editVars, envVars, globalVars, bfvVars, groupVars,
                  global_sum >>

\* INSERT INTO global_sum
\*   SELECT HERMES_PACK_GLOBAL_SUM(local_sum_ct) FROM packed_salaries
GlobalSumStatement ==
  /\ alive
  /\ LET cts == [i \in 1 .. Len(local_sums) |-> local_sums[i].ct]
     IN  global_sum' = [called |-> TRUE, covered |-> Len(local_sums),
                        res |-> HERMES_PACK_GLOBAL_SUM(GlobalSumOver(cts))]
  /\ UNCHANGED << editVars, envVars, alive, globalVars, bfvVars, groupVars,
                  local_sums >>

\* the rows of one group
RowSeqs == UNION {VecsOfLen(n, RowVals) : n \in 0 .. MaxRows}

NextTier ==
  \/ \E rows \in RowSeqs : LocalSumStatement(rows)
  \/ GlobalSumStatement

SpecTier == InitAgg /\ [][NextTier]_vars

\* ------------------------------------------------------------------------
\* SlotEditor properties
\* ------------------------------------------------------------------------

\* data in slots [0,k), zero in slots [k,N)
ZeroFrom(ct, k) == \A j \in Slots : (j >= k) => (Slot(ct, j) = 0)

IsRemoveCall == last.op \in {"RMV", "REMOVE"}

InRange(index, k) == (0 <= index) /\ (index < k) /\ (k <= BatchSize)

\* C1: a Remove(ct, index, k) of a dense vector of logical length k, with
\* 0 <= index < k <= N, that returns a result returns a dense vector of
\* logical length k-1: slot k-1 is zero, slot index (when index < k-1)
\* holds the value formerly at slot k-1, every other slot is unchanged.
C1_RemoveCompaction ==
  (IsRemoveCall /\ ~last.res.is_null /\ InRange(last.index, last.k)
     /\ ZeroFrom(last.pre, last.k))
  => /\ ZeroFrom(last.res.ct, last.k - 1)
     /\ \A j \in Slots :
          Slot(last.res.ct, j) =
            IF j = last.k - 1 THEN 0
            ELSE IF j = last.index THEN Slot(last.pre, last.k - 1)
            ELSE Slot(last.pre, j)

\* the documented case: [1000,2000,1500], Remove(ct,1,3) gives [1000,1500,0]
C1_Witness ==
  /\ IsRemoveCall /\ ~last.res.is_null
  /\ last.index = 1 /\ last.k = 3
  /\ last.pre = Pad(<< 1000, 2000, 1500 >>)
  /\ last.res.ct = Pad(<< 1000, 1500 >>)

\* C2: under the update protocol the stored ciphertext has no gaps: every
\* slot at position >= k is zero and the live (non-zero) values occupy
\* exactly the slots [0,k), with 0 <= k <= N.
C2_DensityInvariant ==
  /\ slot_count \in 0 .. BatchSize
  /\ ZeroFrom(packed_ct, slot_count)
  /\ \A j \in Slots : (j < slot_count) => (Slot(packed_ct, j) # 0)

\* an interior removal was written back after an insertion filled the row
C2_Witness ==
  /\ last.op = "REMOVE" /\ ~last.res.err
  /\ last.index < last.k - 1
  /\ last.k = BatchSize
  /\ slot_count = BatchSize - 1

\* C3: Remove(ct, index, k) returns a ciphertext, not an error, for every
\* 0 <= index < k <= N.
C3_RemoveSucceedsInRange ==
  (IsRemoveCall /\ InRange(last.index, last.k)) => ~last.res.err

\* C10: Remove with index < 0, index >= k or k > N returns the error result
\* (NULL, error flag set, no ciphertext) and leaves ct as it was.
C10_RemoveBoundaryErrors ==
  [][ (last'.op = "RMV" /\ ~InRange(last'.index, last'.k))
        => (last'.res = ErrorResult /\ packed_ct' = packed_ct
              /\ last'.pre = packed_ct) ]_vars

\* Remove(ct, k, k) with k >= 1 was called and failed
C10_Witness ==
  /\ last.op = "RMV" /\ last.index = last.k /\ last.k >= 1
  /\ last.res.err /\ last.res.ct = NoCt
  /\ packed_ct = last.pre

\* ------------------------------------------------------------------------
\* Aggregator properties
\* ------------------------------------------------------------------------

\* slot-wise sum, modulo the plaintext modulus, of a sequence of ciphertexts
SumVec(cts) ==
  [i \in 1 .. BatchSize |->
     Centered(SeqSum([j \in 1 .. Len(cts) |-> cts[j][i]]))]

\* the multiset of the elements of a sequence
BagOf(q) ==
  [x \in {q[i] : i \in DOMAIN q} |->
     Cardinality({i \in DOMAIN q : q[i] = x})]

\* C4: Finalize of HERMES_PACK_GLOBAL_SUM and of HERMES_SUM_BFV returns the
\* accumulated value if and only if at least one operand was folded since
\* the last Init/Reset; otherwise it returns SQL NULL and no ciphertext or
\* decrypted value.
C4_FinalizeIffAccumulated ==
  /\ gout[1].called =>
       /\ (~gout[1].res.is_null) <=> (Len(gops[1]) >= 1)
       /\ gout[1].res.is_null => (gout[1].res.ct = NoCt)
       /\ (~gout[1].res.is_null) =>
            (gout[1].res.ct = gsum[1].acc /\ gsum[1].acc # NoCt)
  /\ bout.called =>
       /\ (~bout.res.is_null) <=> (Len(bops) >= 1)
       /\ (~bout.res.is_null) => (bout.res.val = Slot(bfv.acc, 0))

\* both accumulators were finalized on an empty group that follows a
\* non-empty one (HERMES_SUM_BFV still holds the earlier accumulator)
C4_Witness ==
  /\ gout[1].called /\ gout[1].res.is_null
  /\ bout.called /\ bout.res.is_null
  /\ bfv.acc # NoCt

\* C5: HERMES_PACK_GROUP_SUM of a group with no non-NULL row returns the
\* no-data signal (SQL NULL), never a ciphertext.
C5_EmptyGroupIsNoData ==
  (rout.called /\ Len(rops) = 0) => (~rout.threw /\ rout.res.is_null)

\* C6: after m >= 1 Accumulate calls the state is initialized, the
\* accumulator is the slot-wise sum modulo the plaintext modulus of the
\* operands, and Finalize returns it.
C6_AccumulateFoldsSum ==
  /\ (Len(gops[1]) >= 1) =>
       /\ gsum[1].initialized
       /\ gsum[1].acc = SumVec(gops[1])
       /\ gout[1].called => (gout[1].res = OkResult(SumVec(gops[1])))
  /\ (Len(bops) >= 1) =>
       /\ bfv.initialized
       /\ bfv.acc = SumVec(bops)
       /\ bout.called =>
            (~bout.res.is_null /\ bout.res.val = Slot(SumVec(bops), 0))

\* both accumulators folded several operands, the sum wrapped around the
\* modulus in slot 0, and both were finalized
C6_Witness ==
  /\ Len(gops[1]) >= 2 /\ gout[1].called
  /\ Slot(gout[1].res.ct, 0) < 0
  /\ Len(bops) >= 2 /\ bout.called
  /\ bout.res.val < 0

\* C7: two sessions that fold the same multiset of ciphertexts, in any two
\* orders, finalize to results that decrypt to the same vector.
C7_OrderIndependence ==
  (gout[1].called /\ gout[2].called /\ BagOf(gops[1]) = BagOf(gops[2]))
  => (gout[1].res = gout[2].res)

\* the two sessions folded the same three operands in different orders
C7_Witness ==
  /\ gout[1].called /\ gout[2].called
  /\ Len(gops[1]) = 3
  /\ gops[1] # gops[2]
  /\ BagOf(gops[1]) = BagOf(gops[2])
  /\ gout[1].res = gout[2].res

\* the total of the rows of the groups covered by the global sum
CoveredTotal ==
  SeqSum([i \in 1 .. global_sum.covered |-> local_sums[i].total])

\* C8 as stated: the global sum over the finalized group sums decrypts, in
\* slot 0, to the sum of all input values of all groups.
C8_GlobalSumIsPlainSum ==
  (global_sum.called /\ global_sum.covered >= 1)
  => (~global_sum.res.is_null
        /\ Slot(global_sum.res.ct, 0) = CoveredTotal)

\* C8 amended: the global sum over the finalized group sums decrypts, in
\* slot 0, to the sum of all input values of all groups reduced modulo the
\* plaintext modulus to its centred representative, whatever the partition;
\* it is the plain sum whenever that lies within +-(p-1)/2.
C8_GlobalSumIsSumModP ==
  (global_sum.called /\ global_sum.covered >= 1)
  => /\ ~global_sum.res.is_null
     /\ Slot(global_sum.res.ct, 0) = Centered(CoveredTotal)
     /\ (CoveredTotal <= HalfModulus)
          => (Slot(global_sum.res.ct, 0) = CoveredTotal)

\* two groups were summed and their global sum wrapped around the modulus
C8_Witness ==
  /\ global_sum.called /\ global_sum.covered = 2
  /\ local_sums[1].total > 0 /\ local_sums[2].total > 0
  /\ CoveredTotal > HalfModulus
  /\ Slot(global_sum.res.ct, 0) = CoveredTotal - PlaintextModulus

\* HERMES_ENC_SINGULAR of every element of a sequence of integers
EncAll(q) == [i \in DOMAIN q |-> HERMES_ENC_SINGULAR(q[i]).ct]

\* C9: for a non-empty multiset of integers the plaintext sum encrypted
\* once by HERMES_PACK_GROUP_SUM decrypts to the same value as folding the
\* encryptions of the same integers with HERMES_PACK_GLOBAL_SUM.
C9_PlainSumEqualsCipherFold ==
  (rout.called /\ Len(rops) >= 1
     /\ gout[1].called /\ ~gout[1].res.is_null
     /\ BagOf(EncAll(rops)) = BagOf(gops[1]))
  => /\ ~rout.threw
     /\ ~rout.res.is_null
     /\ Slot(rout.res.ct, 0) = Slot(gout[1].res.ct, 0)

\* ------------------------------------------------------------------------
\* SlotEditor calls on server threads: getGC, the key files, the call
\* ------------------------------------------------------------------------

\* the packed row of run_pack.sh, with any subset of the key files on disk
InitCtx ==
  /\ packed_ct = Pad(<< 1000, 2000, 1500 >>)
  /\ slot_count = 3
  /\ last = NoCall
  /\ AggIdle
  /\ pack = NewPackState
  /\ prows = << >>
  /\ pout = NoPack
  /\ dout = NoDecode
  /\ files \in SUBSET AllKeyFiles
  /\ made = 0
  /\ gc = NoContext
  /\ tpc = [t \in Threads |-> "idle"]
  /\ tctx = [t \in Threads |-> 0]
  /\ depth = 0
  /\ buffer = NoCt
  /\ gpc = [s \in Sessions |-> "idle"]
  /\ g_context = 0
  /\ g_kp = 0
  /\ g_context_initialized = FALSE
  /\ spc = [t \in Threads |-> NoSingularCall]
  /\ armor = NoArmor

\* getGC entered without the guard of the static: any thread that finds
\* global_ctx not yet ready runs the initializer
GetGCEnter_NoGuard(t) ==
  /\ alive
  /\ tpc[t] = "idle"
  /\ IF gc.state = "ready"
     THEN /\ tpc' = [tpc EXCEPT ![t] = "got"]
          /\ tctx' = [tctx EXCEPT ![t] = gc.built]
          /\ UNCHANGED gc
     ELSE /\ gc' = [gc EXCEPT !.state = "busy"]
          /\ tpc' = [tpc EXCEPT ![t] = "init"]
          /\ UNCHANGED tctx
  /\ UNCHANGED << editVars, alive, sessionVars, codecVars, files, made, depth,
                  bufVars, singVars, armor >>

\* getGC entered: an initialized static is returned; the first thread to
\* find it uninitialized takes the guard and runs the initializer; a thread
\* that finds the guard taken waits until it is released
GetGCEnter(t) ==
  /\ alive
  /\ tpc[t] = "idle"
  /\ gc.state # "busy"
  /\ IF gc.state = "ready"
     THEN /\ tpc' = [tpc EXCEPT ![t] = "got"]
          /\ tctx' = [tctx EXCEPT ![t] = gc.built]
          /\ UNCHANGED gc
     ELSE /\ gc' = [gc EXCEPT !.state = "busy"]
          /\ tpc' = [tpc EXCEPT ![t] = "init"]
          /\ UNCHANGED tctx
  /\ UNCHANGED << editVars, alive, sessionVars, codecVars, files, made, depth,
                  bufVars, singVars, armor >>

\* loadContextWithGaloisKeysOnly run by the initializing thread:
\* makeBfvContext, then std::exit(1) when the Galois key file cannot be
\* opened, else the static is set and the guard released
GetGCLoad(t) ==
  /\ alive
  /\ tpc[t] = "init"
  /\ IF "galois" \notin files
     THEN /\ alive' = FALSE
          /\ gc' = [gc EXCEPT !.built = @ + 1]
          /\ UNCHANGED << tpc, tctx >>
     ELSE /\ gc' = [state |-> "ready", built |-> gc.built + 1]
          /\ tpc' = [tpc EXCEPT ![t] = "got"]
          /\ tctx' = [tctx EXCEPT ![t] = gc.built + 1]
          /\ UNCHANGED alive
  /\ UNCHANGED << editVars, sessionVars, codecVars, files, made, depth,
                  bufVars, singVars, armor >>

\* the rest of HERMES_PACK_ADD on thread t
ThreadADD(t, val, index) ==
  /\ alive
  /\ tpc[t] = "got"
  /\ last' = [op |-> "ADD", index |-> index, k |-> slot_count, val |-> val,
              pre |-> packed_ct,
              res |-> KeyedADD(packed_ct, val, index, files)]
  /\ tpc' = [tpc EXCEPT ![t] = "idle"]
  /\ UNCHANGED << packed_ct, slot_count, alive, sessionVars, codecVars,
                  files, made, gc, tctx, depth, bufVars,
                  singVars, armor >>

\* the rest of HERMES_PACK_RMV on thread t
ThreadRMV(t, index, k) ==
  /\ alive
  /\ tpc[t] = "got"
  /\ last' = [op |-> "RMV", index |-> index, k |-> k, val |-> 0,
              pre |-> packed_ct,
              res |-> KeyedRMV(packed_ct, index, k, files)]
  /\ tpc' = [tpc EXCEPT ![t] = "idle"]
  /\ UNCHANGED << packed_ct, slot_count, alive, sessionVars, codecVars,
                  files, made, gc, tctx, depth, bufVars,
                  singVars, armor >>

NextCtx ==
  \E t \in Threads :
    \/ GetGCEnter(t)
    \/ GetGCLoad(t)
    \/ \E val \in InsertVals : \E index \in -1 .. BatchSize :
         ThreadADD(t, val, index)
    \/ \E index \in -1 .. BatchSize : ThreadRMV(t, index, slot_count)

SpecCtx == InitCtx /\ [][NextCtx]_vars

\* ------------------------------------------------------------------------
\* Repeated updates of one stored ciphertext, never refreshed
\* ------------------------------------------------------------------------

\* updates followed on one ciphertext
MaxDepth == 4

\* step 8 on the stored ciphertext: EvalAdd with a fresh encryption leaves
\* the number of multiplications behind it as it was
DepthInsert(val) ==
  /\ slot_count < BatchSize
  /\ LET r == HERMES_PACK_ADD(packed_ct, val, slot_count)
     IN  /\ last' = [op |-> "INSERT", index |-> slot_count, k |-> slot_count,
                     val |-> val, pre |-> packed_ct, res |-> r]
         /\ IF r.err
            THEN UNCHANGED << packed_ct, slot_count >>
            ELSE /\ packed_ct' = r.ct
                 /\ slot_count' = slot_count + 1
  /\ UNCHANGED << alive, sessionVars, codecVars, files, made, ctxVars,
                  depth, bufVars, singVars, armor >>

\* step 9 on the stored ciphertext: HERMES_PACK_RMV reads no depth or
\* noise figure; what it returns has been through MultsOfRemove more
\* multiplications than its argument
DepthRemove(index) ==
  /\ 0 <= index /\ index < slot_count
  /\ depth < MaxDepth
  /\ LET r == HERMES_PACK_RMV(packed_ct, index, slot_count)
     IN  /\ last' = [op |-> "REMOVE", index |-> index, k |-> slot_count,
                     val |-> 0, pre |-> packed_ct, res |-> r]
         /\ IF r.err
            THEN UNCHANGED << packed_ct, slot_count, depth >>
            ELSE /\ packed_ct' = r.ct
                 /\ slot_count' = slot_count - 1
                 /\ depth' = depth + MultsOfRemove(index, slot_count)
  /\ UNCHANGED << alive, sessionVars, codecVars, files, made, ctxVars,
                  bufVars, singVars, armor >>

NextDepth ==
  \/ \E val \in InsertVals : DepthInsert(val)
  \/ \E index \in Slots : DepthRemove(index)

SpecDepth == Init /\ [][NextDepth]_vars

\* ------------------------------------------------------------------------
\* Two HERMES_PACK_GLOBAL_SUM sessions on concurrent server threads
\* ------------------------------------------------------------------------

\* the local sum each session folds
SharedArg(s) ==
  IF s = 1 THEN CtArg(MakePackedPlaintext(<< 5200, 1 >>))
           ELSE CtArg(MakePackedPlaintext(<< 4800 >>))

\* HERMES_PACK_GLOBAL_SUM up to buffer.clear(): an empty accumulator
\* returns NULL before the static buffer is touched
GlobalSumBegin(s) ==
  /\ alive
  /\ gpc[s] = "idle"
  /\ IF ~gsum[s].initialized
     THEN /\ gout' = [gout EXCEPT
                        ![s] = Returned(HERMES_PACK_GLOBAL_SUM(gsum[s]))]
          /\ UNCHANGED << buffer, gpc >>
     ELSE /\ buffer' = NoCt
          /\ gpc' = [gpc EXCEPT ![s] = "cleared"]
          /\ UNCHANGED gout
  /\ UNCHANGED << editVars, alive, gsum, gops, bfvVars, groupVars, tierVars,
                  codecVars, files, made, ctxVars, depth,
                  singVars, armor >>

\* buffer = encodeBase64(serializeCiphertext(state->acc)); the pointer into
\* the buffer and its length are returned to the server
GlobalSumFill(s) ==
  /\ alive
  /\ gpc[s] = "cleared"
  /\ buffer' = HERMES_PACK_GLOBAL_SUM(gsum[s]).ct
  /\ gpc' = [gpc EXCEPT ![s] = "returned"]
  /\ UNCHANGED << editVars, alive, globalVars, bfvVars, groupVars, tierVars,
                  codecVars, files, made, ctxVars, depth,
                  singVars, armor >>

\* the server copies the result of session s out of the returned pointer:
\* it gets whatever the buffer holds by then
HostCopy(s) ==
  /\ alive
  /\ gpc[s] = "returned"
  /\ gout' = [gout EXCEPT ![s] = Returned(OkResult(buffer))]
  /\ gpc' = [gpc EXCEPT ![s] = "idle"]
  /\ UNCHANGED << editVars, alive, gsum, gops, bfvVars, groupVars, tierVars,
                  codecVars, files, made, ctxVars, depth, buffer,
                  singVars, armor >>

\* a session makes one call at a time; the two sessions interleave freely
NextShared ==
  \E s \in Sessions :
    \/ (gpc[s] = "idle" /\ GlobalSumClear(s))
    \/ (gpc[s] = "idle" /\ GlobalSumAdd(s, SharedArg(s)))
    \/ GlobalSumBegin(s)
    \/ GlobalSumFill(s)
    \/ HostCopy(s)

SpecShared == InitAgg /\ [][NextShared]_vars

\* ------------------------------------------------------------------------
\* One stored ciphertext passed to the SlotEditor and to the accumulator
\* ------------------------------------------------------------------------

\* the packed row of run_pack.sh with every key file in place
InitPure == InitCtx /\ files = AllKeyFiles

\* SELECT calls, the UPDATEs of steps 8-9, and a HERMES_PACK_GLOBAL_SUM
\* session that is fed the stored ciphertext
NextPure ==
  \/ \E index \in {-1, 0, slot_count - 1} : CallRMV(index, slot_count)
  \/ \E index \in {-1, 0} : CallADD(9999, index)
  \/ UpdateInsert(9999)
  \/ \E index \in {0, slot_count - 1} : UpdateRemove(index)
  \/ GlobalSumClear(1)
  \/ (gops[1] = << >> /\ GlobalSumAdd(1, CtArg(packed_ct)))
  \/ GlobalSum(1)

SpecPure == InitPure /\ [][NextPure]_vars

\* ------------------------------------------------------------------------
\* Codec session: HERMES_PACK_CONVERT and HERMES_DEC_VECTOR_BFV
\* ------------------------------------------------------------------------

\* rows handed to HERMES_PACK_CONVERT_add per group
MaxPackRows == 5

\* the column packed by HERMES_PACK_CONVERT
PackVals == InitVals \cup {PlaintextModulus}

PackArgs == {NullInt} \cup {IntArg(v) : v \in PackVals}

\* HERMES_PACK_CONVERT_clear: the next group starts
PackConvertClear ==
  /\ alive
  /\ pack' = HERMES_PACK_CONVERT_clear(pack)
  /\ prows' = << >>
  /\ pout' = NoPack
  /\ dout' = NoDecode
  /\ UNCHANGED << editVars, sessionVars, alive, files, made, ctxVars, depth,
                  bufVars, singVars, armor >>

\* HERMES_PACK_CONVERT_add: one row of the group
PackConvertAdd(arg) ==
  /\ alive
  /\ ~pout.called
  /\ Len(pack.values) <= BatchSize
  /\ Len(prows) < MaxPackRows
  /\ pack' = HERMES_PACK_CONVERT_add(pack, arg)
  /\ prows' = Append(prows, arg)
  /\ UNCHANGED << editVars, sessionVars, alive, pout, dout, files, made,
                  ctxVars, depth, bufVars,
                  singVars, armor >>

\* HERMES_PACK_CONVERT: the empty group returns before a context is built;
\* otherwise makeBfvContext, then loadPublicKey / loadSecretKey and
\* MakePackedPlaintext, none of them inside a try block.  More values than
\* slots are written past the end of the encoder's vector: the call either
\* dies or returns the encryption of the leading slots.
PackConvert ==
  /\ alive
  /\ ~pout.called
  /\ IF pack.values = << >>
     THEN /\ pout' = [called |-> TRUE, threw |-> FALSE, vals |-> << >>,
                      res |-> HERMES_PACK_CONVERT(pack)]
          /\ UNCHANGED << alive, made >>
     ELSE /\ made < MaxContexts
          /\ made' = made + 1
          /\ IF ~({"pub", "sec"} \subseteq files) \/ PackConvertThrows(pack)
             THEN /\ alive' = FALSE
                  /\ pout' = [called |-> TRUE, threw |-> TRUE,
                              vals |-> pack.values, res |-> NullResult]
             ELSE IF Len(pack.values) > BatchSize
                  THEN \/ /\ alive' = FALSE
                          /\ pout' = [called |-> TRUE, threw |-> TRUE,
                                      vals |-> pack.values,
                                      res |-> NullResult]
                       \/ /\ alive' = alive
                          /\ pout' = [called |-> TRUE, threw |-> FALSE,
                                      vals |-> pack.values,
                                      res |-> HERMES_PACK_CONVERT(pack)]
                  ELSE /\ alive' = alive
                       /\ pout' = [called |-> TRUE, threw |-> FALSE,
                                   vals |-> pack.values,
                                   res |-> HERMES_PACK_CONVERT(pack)]
  /\ UNCHANGED << editVars, sessionVars, pack, prows, dout, files, ctxVars,
                  depth, bufVars, singVars, armor >>

\* the arguments handed to HERMES_DEC_VECTOR_BFV: an undecodable string or
\* the ciphertext HERMES_PACK_CONVERT has just returned
DecodeArgs ==
  {BadArg} \cup (IF pout.called /\ ~pout.threw /\ ~pout.res.is_null
                 THEN {CtArg(pout.res.ct)} ELSE {})

\* HERMES_DEC_VECTOR_BFV: an empty decodeBase64 result returns before a
\* context is built; otherwise makeBfvContext, then the secret key file
DecVectorBfv(arg) ==
  /\ alive
  /\ IF arg.kind = "ct"
     THEN /\ made < MaxContexts
          /\ made' = made + 1
     ELSE UNCHANGED made
  /\ dout' = [called |-> TRUE, arg |-> arg,
              res |-> HERMES_DEC_VECTOR_BFV(arg, "sec" \in files)]
  /\ UNCHANGED << editVars, sessionVars, alive, pack, prows, pout, files,
                  ctxVars, depth, bufVars,
                  singVars, armor >>

NextCodec ==
  \/ PackConvertClear
  \/ \E arg \in PackArgs : PackConvertAdd(arg)
  \/ PackConvert
  \/ \E arg \in DecodeArgs : DecVectorBfv(arg)

SpecCodec == InitAgg /\ [][NextCodec]_vars

\* ------------------------------------------------------------------------
\* Claims about HERMES_PACK_ADD
\* ------------------------------------------------------------------------

IsInsertCall == last.op \in {"ADD", "INSERT"}

\* C11: an Insert whose index is below 0 or at least N returns the error
\* result (NULL, error flag set, no ciphertext), and the stored ciphertext
\* is the one that was passed in.
C11_InsertBoundaryErrors ==
  (IsInsertCall /\ (last.index < 0 \/ last.index >= BatchSize))
    => /\ last.res = ErrorResult
       /\ packed_ct = last.pre

C11_Witness ==
  /\ last.op = "ADD"
  /\ last.index = BatchSize
  /\ last.res = ErrorResult
  /\ packed_ct = last.pre

\* C12 as stated: an Insert with 0 <= index < N returns a ciphertext whose
\* slot index decrypts to the former value plus the inserted value, every
\* other slot to its former value.
C12_InsertAddsPlain ==
  (IsInsertCall /\ last.index >= 0 /\ last.index < BatchSize)
    => /\ ~last.res.err
       /\ \A j \in Slots :
            Slot(last.res.ct, j) =
              IF j = last.index THEN Slot(last.pre, j) + last.val
                                ELSE Slot(last.pre, j)

\* C12 amended: an Insert with 0 <= index < N of a value the encoder accepts
\* returns a ciphertext whose slot index decrypts to the centred residue
\* modulo p of (former value + inserted value), every other slot to its
\* former value; a value the encoder rejects gives the error result.
C12_InsertAddsModP ==
  (IsInsertCall /\ last.index >= 0 /\ last.index < BatchSize)
    => IF Encodable(last.val)
       THEN /\ ~last.res.err
            /\ \A j \in Slots :
                 Slot(last.res.ct, j) =
                   IF j = last.index
                   THEN Centered(Slot(last.pre, j) + last.val)
                   ELSE Slot(last.pre, j)
       ELSE last.res = ErrorResult

\* an Insert into an occupied slot
C12_Witness ==
  /\ last.op = "ADD"
  /\ last.index = 0
  /\ last.val = 9999
  /\ Slot(last.pre, 0) = 1000
  /\ ~last.res.err
  /\ Slot(last.res.ct, 0) = 10999

\* ------------------------------------------------------------------------
\* Claims about the codec
\* ------------------------------------------------------------------------

\* the last HERMES_DEC_VECTOR_BFV call decoded what HERMES_PACK_CONVERT
\* returned for a group that fits the slots
DecodedThePack ==
  /\ pout.called /\ ~pout.threw /\ ~pout.res.is_null
  /\ Len(pout.vals) <= BatchSize
  /\ dout.called /\ dout.arg = CtArg(pout.res.ct)

\* C13: decoding the ciphertext that HERMES_PACK_CONVERT produced for the
\* values v, |v| <= N, returns exactly v, all |v| values in order.
C13_CodecRoundTrip ==
  DecodedThePack => (~dout.res.err /\ dout.res.vals = pout.vals)

\* C14: HERMES_PACK_CONVERT over more than N accumulated values reports an
\* error result to its caller: no ciphertext, error flag set, the call
\* returns.
C14_EncodeCapacityError ==
  (pout.called /\ Len(pout.vals) > BatchSize)
    => (~pout.threw /\ pout.res = ErrorResult /\ alive)

\* ------------------------------------------------------------------------
\* Claims about the context and the key files
\* ------------------------------------------------------------------------

\* C15: every getGC call returns the same instance, the instance is
\* constructed once, and threads making their first call at the same time
\* never construct two.
C15_ContextInitOnce ==
  /\ gc.built <= 1
  /\ \A t \in Threads : (tctx[t] # 0) => (tctx[t] = 1 /\ gc.built = 1)
  /\ \A t, u \in Threads :
       (tpc[t] = "init" /\ tpc[u] = "init") => (t = u)

\* both threads hold the instance, one of them after waiting for the other
C15_Witness ==
  /\ \A t \in Threads : tctx[t] = 1
  /\ gc = [state |-> "ready", built |-> 1]

\* C16: inside one plugin makeBfvContext runs at most once, whatever the
\* sequence of HERMES_PACK_CONVERT and HERMES_DEC_VECTOR_BFV calls.
C16_OneContextPerPlugin == made <= 1

\* C20: with a key file missing the process keeps running and the call
\* that needs the file returns the error result with the row untouched.
C20_MissingKeyIsErrorValue ==
  /\ alive
  /\ (last.op = "ADD" /\ "pub" \notin files) => last.res = ErrorResult
  /\ (last.op = "RMV" /\ "sec" \notin files) => last.res = ErrorResult
  /\ packed_ct = Pad(<< 1000, 2000, 1500 >>)

\* ------------------------------------------------------------------------
\* Claims about the depth budget
\* ------------------------------------------------------------------------

\* C17: a Remove that takes the stored ciphertext past the configured
\* multiplicative depth returns the error result instead of a ciphertext:
\* a Remove that returned a ciphertext left it within the budget.
C17_DepthBudgetEnforced ==
  (last.op = "REMOVE" /\ ~last.res.err) => depth <= MultiplicativeDepth

\* ------------------------------------------------------------------------
\* Claims about concurrent sessions
\* ------------------------------------------------------------------------

\* C18: with two sessions running at the same time, what each session's
\* HERMES_PACK_GLOBAL_SUM hands to its caller is the fold of that session's
\* own operands, whatever the other session does.
C18_SessionsIsolated ==
  \A s \in Sessions :
    (gout[s].called /\ ~gout[s].res.is_null)
      => gout[s].res.ct = SumVec(gops[s])

\* ------------------------------------------------------------------------
\* Claims about what a call leaves alone
\* ------------------------------------------------------------------------

InsertedThenRemoved(orig, v, i, k) ==
  [j \in 1 .. BatchSize |-> IF j = i + 1 /\ i < k THEN v ELSE orig[j]]

\* C21: an Insert at slot k followed directly by a Remove of index i,
\* 0 <= i <= k, with length k + 1 yields the original row with slot i
\* replaced by the inserted value (the original itself when i = k), of
\* logical length k.
C21_InsertThenRemove ==
  [][ ( /\ last.op = "INSERT" /\ ~last.res.err
        /\ last'.op = "REMOVE" /\ last' # last )
      => /\ ~last'.res.err
         /\ packed_ct' =
              InsertedThenRemoved(last.pre, last.val, last'.index, last.k)
         /\ slot_count' = last.k
    ]_vars

\* ------------------------------------------------------------------------
\* The update protocol of run_pack.sh: packed_ct, local_sum_ct and
\* slot_count of one row set by one UPDATE statement
\* ------------------------------------------------------------------------

\* HERMES_SUM_CIPHERS(s1, s2): EvalAdd of the two operands; an operand that
\* does not deserialize throws inside the try and gives the error result
HERMES_SUM_CIPHERS(c1, c2) ==
  IF c1 = NoCt \/ c2 = NoCt THEN ErrorResult
  ELSE OkResult(EvalAdd(c1, c2))

\* HERMES_DEC_SINGULAR(ct): slot 0 of the decrypted vector
HERMES_DEC_SINGULAR(ct) == Slot(ct, 0)

\* the column value an UPDATE stores for a UDF result: NULL for an error
Stored(r) == IF r.is_null THEN NoCt ELSE r.ct

\* the row of dept = 1 after steps 4 and 5: HERMES_PACK_CONVERT(salary),
\* COUNT(salary) and HERMES_PACK_GROUP_SUM(salary) over the same salaries
InitProto ==
  /\ \E n \in 1 .. MaxInitLen : \E v \in VecsOfLen(n, InitVals) :
       /\ packed_ct = Pad(v)
       /\ slot_count = n
       /\ local_sums = << [ct |-> HERMES_PACK_GROUP_SUM(GroupSumOver(v)).ct,
                           total |-> SeqSum(v)] >>
  /\ last = NoCall
  /\ alive = TRUE
  /\ gsum = [s \in Sessions |-> NewCipherAccState]
  /\ gops = [s \in Sessions |-> << >>]
  /\ gout = [s \in Sessions |-> NotCalled]
  /\ bfv = NewHermesSumContext
  /\ bops = << >>
  /\ bout = NotCalled
  /\ grp = NewSumState
  /\ rops = << >>
  /\ rout = NotCalled
  /\ global_sum = NoGlobalSum
  /\ EnvIdle

\* step 8: UPDATE packed_salaries SET
\*   packed_ct = HERMES_PACK_ADD(packed_ct, v, slot_count),
\*   local_sum_ct = HERMES_SUM_CIPHERS(local_sum_ct, HERMES_ENC_SINGULAR(v)),
\*   slot_count = slot_count + 1
ProtoInsert(val) ==
  /\ packed_ct # NoCt
  /\ slot_count < BatchSize
  /\ LET r == HERMES_PACK_ADD(packed_ct, val, slot_count)
         s == HERMES_SUM_CIPHERS(local_sums[1].ct,
                                 Stored(HERMES_ENC_SINGULAR(val)))
     IN  /\ last' = [op |-> "INSERT", index |-> slot_count, k |-> slot_count,
                     val |-> val, pre |-> packed_ct, res |-> r]
         /\ packed_ct' = Stored(r)
         /\ local_sums' = << [ct |-> Stored(s),
                              total |-> local_sums[1].total + val] >>
         /\ slot_count' = slot_count + 1
  /\ UNCHANGED << alive, globalVars, bfvVars, groupVars, global_sum, envVars >>

\* step 9: UPDATE packed_salaries SET
\*   packed_ct = HERMES_PACK_RMV(packed_ct, i, slot_count),
\*   local_sum_ct = HERMES_SUM_CIPHERS(local_sum_ct, HERMES_ENC_SINGULAR(-x)),
\*   slot_count = slot_count - 1
\* where x is the value the caller knows slot i to hold
ProtoRemove(index) ==
  /\ packed_ct # NoCt
  /\ 0 <= index /\ index < slot_count
  /\ LET x == Slot(packed_ct, index)
         r == HERMES_PACK_RMV(packed_ct, index, slot_count)
         s == HERMES_SUM_CIPHERS(local_sums[1].ct,
                                 Stored(HERMES_ENC_SINGULAR(-x)))
     IN  /\ last' = [op |-> "REMOVE", index |-> index, k |-> slot_count,
                     val |-> x, pre |-> packed_ct, res |-> r]
         /\ packed_ct' = Stored(r)
         /\ local_sums' = << [ct |-> Stored(s),
                              total |-> local_sums[1].total - x] >>
         /\ slot_count' = slot_count - 1
  /\ UNCHANGED << alive, globalVars, bfvVars, groupVars, global_sum, envVars >>

NextProto ==
  \/ \E val \in InsertVals : ProtoInsert(val)
  \/ \E index \in Slots : ProtoRemove(index)

SpecProto == InitProto /\ [][NextProto]_vars

\* the sum of slots [0, k) of a packed vector
SumOfSlots(ct, k) == SeqSum([j \in 1 .. k |-> ct[j]])

\* C22: under the update protocol, after every step local_sum_ct decrypts
\* (slot 0) to the sum of slots [0, slot_count) of packed_ct.
C22_LocalSumConsistent ==
  /\ packed_ct # NoCt
  /\ local_sums[1].ct # NoCt
  /\ HERMES_DEC_SINGULAR(local_sums[1].ct) = SumOfSlots(packed_ct, slot_count)

\* ------------------------------------------------------------------------
\* Claims about the layout HERMES_PACK_CONVERT writes
\* ------------------------------------------------------------------------

\* the non-NULL values of a sequence of rows, in row order
RECURSIVE NonNullVals(_)
NonNullVals(rows) ==
  IF rows = << >> THEN << >>
  ELSE LET head == NonNullVals(SubSeq(rows, 1, Len(rows) - 1))
           r == rows[Len(rows)]
       IN  IF r.null THEN head ELSE Append(head, r.val)

\* HERMES_PACK_CONVERT has returned a ciphertext for a group that fits
PackedTheGroup ==
  /\ pout.called /\ ~pout.threw /\ ~pout.res.is_null
  /\ Len(NonNullVals(prows)) <= BatchSize

GlobalBetween == gops[1] = << >> /\ gout[1] = NotCalled
BfvBetween == bops = << >> /\ bout = NotCalled
GroupBetween == rops = << >> /\ rout = NotCalled

NextReset ==
  \/ /\ BfvBetween /\ GroupBetween
     /\ \/ GlobalSumClear(1)
        \/ \E arg \in AggArgs : GlobalSumAdd(1, arg)
        \/ GlobalSum(1)
  \/ /\ GlobalBetween /\ GroupBetween
     /\ \/ SumBfvClear
        \/ \E arg \in AggArgs : SumBfvAdd(arg)
        \/ \E arg \in AggArgs : SumBfvReset(arg)
        \/ SumBfv
  \/ /\ GlobalBetween /\ BfvBetween
     /\ \/ GroupSumClear
        \/ \E arg \in RowArgs : GroupSumAdd(arg)
        \/ GroupSum

SpecReset == InitAgg /\ [][NextReset]_vars

\* HERMES_SUM_BFV_init, then _add for every operand
RECURSIVE SumBfvOver(_)
SumBfvOver(cts) ==
  IF cts = << >> THEN NewHermesSumContext
  ELSE HERMES_SUM_BFV_add(SumBfvOver(SubSeq(cts, 1, Len(cts) - 1)),
                          cts[Len(cts)])

\* C24: the value a Finalize returns is the value a session fresh from Init
\* returns for the operands accumulated since the most recent Reset alone;
\* an accumulator left behind by HERMES_SUM_BFV_clear contributes nothing.
C24_ResetIsolatesGroups ==
  /\ (gout[1].called /\ ~gout[1].threw) =>
       gout[1].res = HERMES_PACK_GLOBAL_SUM(GlobalSumOver(gops[1]))
  /\ bout.called =>
       bout.res = HERMES_SUM_BFV(SumBfvOver(bops))
  /\ rout.called =>
       /\ rout.threw <=> GroupSumThrows(GroupSumOver(rops))
       /\ ~rout.threw => rout.res = HERMES_PACK_GROUP_SUM(GroupSumOver(rops))

\* the group after a clear that left the accumulator in place is finalized
\* with no operand of its own
C24_Witness ==
  /\ bout.called /\ bout.res.is_null
  /\ bops = << >>
  /\ bfv.acc # NoCt
  /\ ~bfv.initialized

\* ------------------------------------------------------------------------
\* The standalone singular plugin: InitBFVContext on concurrent threads
\* ------------------------------------------------------------------------

\* a UDF is entered and InitBFVContext reads g_context_initialized
InitBFVContextEnter(t, udf) ==
  /\ spc[t].pc = "idle"
  /\ spc' = [spc EXCEPT ![t] =
               [pc |-> IF g_context_initialized THEN "body" ELSE "gen",
                udf |-> udf, ctx |-> 0, kp |-> 0]]
  /\ UNCHANGED << g_context, g_kp, g_context_initialized >>
  /\ UNCHANGED << editVars, alive, sessionVars, codecVars, files, made,
                  ctxVars, depth, bufVars, armor >>

\* g_context = GenCryptoContext(params) and the Enable calls
InitBFVContextGen(t) ==
  /\ spc[t].pc = "gen"
  /\ g_context' = g_context + 1
  /\ spc' = [spc EXCEPT ![t].pc = "keygen"]
  /\ UNCHANGED << g_kp, g_context_initialized >>
  /\ UNCHANGED << editVars, alive, sessionVars, codecVars, files, made,
                  ctxVars, depth, bufVars, armor >>

\* g_kp = g_context->KeyGen() and the evaluation keys
InitBFVContextKeyGen(t) ==
  /\ spc[t].pc = "keygen"
  /\ g_kp' = g_context
  /\ spc' = [spc EXCEPT ![t].pc = "flag"]
  /\ UNCHANGED << g_context, g_context_initialized >>
  /\ UNCHANGED << editVars, alive, sessionVars, codecVars, files, made,
                  ctxVars, depth, bufVars, armor >>

\* g_context_initialized = true
InitBFVContextDone(t) ==
  /\ spc[t].pc = "flag"
  /\ g_context_initialized' = TRUE
  /\ spc' = [spc EXCEPT ![t].pc = "body"]
  /\ UNCHANGED << g_context, g_kp >>
  /\ UNCHANGED << editVars, alive, sessionVars, codecVars, files, made,
                  ctxVars, depth, bufVars, armor >>

\* the rest of the UDF: EvalAdd, Encrypt or Decrypt with g_context and g_kp
SingularBody(t) ==
  /\ spc[t].pc = "body"
  /\ spc' = [spc EXCEPT ![t] = [pc |-> "idle", udf |-> @.udf,
                                ctx |-> g_context, kp |-> g_kp]]
  /\ UNCHANGED << g_context, g_kp, g_context_initialized >>
  /\ UNCHANGED << editVars, alive, sessionVars, codecVars, files, made,
                  ctxVars, depth, bufVars, armor >>

NextSingular ==
  \E t \in Threads :
    \/ \E udf \in SingularUdfs : InitBFVContextEnter(t, udf)
    \/ InitBFVContextGen(t)
    \/ InitBFVContextKeyGen(t)
    \/ InitBFVContextDone(t)
    \/ SingularBody(t)

SpecSingular == InitAgg /\ [][NextSingular]_vars

\* C25: InitBFVContext constructs the global context and key pair at most
\* once, and every UDF body works with a context and a key pair whose
\* initialization has completed.
C25_SingularInitOnce ==
  /\ g_context <= 1
  /\ \A t \in Threads :
       (spc[t].pc = "body") => (g_context_initialized /\ g_kp = g_context)
  /\ \A t \in Threads :
       (spc[t].ctx # 0) => (spc[t].ctx = 1 /\ spc[t].kp = 1)

\* ------------------------------------------------------------------------
\* Claims about the cost of HERMES_PACK_RMV
\* ------------------------------------------------------------------------

\* the engine calls HERMES_PACK_RMV completes, by kind: EvalMult with a
\* plaintext mask, EvalAtIndex, EvalAdd.  Nothing before the range check;
\* the mask alone in the tail branch; steps 1 and 2 when EvalAtIndex throws
\* for want of a rotation key; steps 1 to 5 otherwise.
OpsOfRemove(index, k) ==
  IF index < 0 \/ index >= k \/ k > BatchSize
  THEN [mult |-> 0, rot |-> 0, add |-> 0]
  ELSE IF index = k - 1
       THEN [mult |-> 1, rot |-> 0, add |-> 0]
       ELSE IF ~HasRotationKey((k - 1) - index)
            THEN [mult |-> 2, rot |-> 0, add |-> 0]
            ELSE [mult |-> 3, rot |-> 1, add |-> 1]

\* C26: an interior removal (index < k-1) performs exactly one rotation,
\* three masked multiplications and one addition; a tail removal
\* (index = k-1, k = 1 with index = 0 included) performs exactly one masked
\* multiplication, no rotation and no addition.
C26_RemoveCost ==
  (IsRemoveCall /\ InRange(last.index, last.k)) =>
    OpsOfRemove(last.index, last.k) =
      IF last.index = last.k - 1
      THEN [mult |-> 1, rot |-> 0, add |-> 0]
      ELSE [mult |-> 3, rot |-> 1, add |-> 1]

\* ------------------------------------------------------------------------
\* Claims about a failing Accumulate
\* ------------------------------------------------------------------------

\* C27: an Accumulate given an operand that cannot be deserialized returns
\* to its caller (with an error) and leaves acc and initialized as they
\* were, in HERMES_PACK_GLOBAL_SUM_add as in HERMES_SUM_BFV_add.
C27_AccumulateFailsAtomically ==
  [][ /\ GlobalSumAdd(1, BadArg) => (alive' /\ gsum'[1] = gsum[1])
      /\ SumBfvAdd(BadArg) => (alive' /\ bfv' = bfv)
    ]_vars

\* ------------------------------------------------------------------------
\* Base64 armor: encodeBase64 and decodeBase64 on byte strings
\* ------------------------------------------------------------------------

\* bytes per armored string
MaxBytes == 5

\* the bytes the strings are made of: NUL, 'M', 'a', 0xFF
ByteVals == {0, 77, 97, 255}

\* b64_chars, as character codes: A-Z, a-z, 0-9, '+', '/'
b64_chars ==
  [i \in 1 .. 64 |->
     IF i <= 26 THEN 64 + i
     ELSE IF i <= 52 THEN 70 + i
     ELSE IF i <= 62 THEN i - 5
     ELSE IF i = 63 THEN 43 ELSE 47]

\* '='
PadChar == 61

\* 1 << n
RECURSIVE Pow2(_)
Pow2(n) == IF n = 0 THEN 1 ELSE 2 * Pow2(n - 1)

\* int val = 0: the 32 bits of the accumulator, as two 16-bit halves
ZeroInt == [hi |-> 0, lo |-> 0]

\* an accumulator of 8 bits: (val << n) + a with everything above bit 7 lost
ShiftLeftAdd_Int8(val, n, a) ==
  [hi |-> 0, lo |-> (val.lo * Pow2(n) + a) % 256]

\* (val << n) + a on the 32-bit int, n <= 8 and 0 <= a < 2^n: the bits
\* shifted past bit 31 are lost
ShiftLeftAdd(val, n, a) ==
  LET low == val.lo * Pow2(n) + a
  IN  [hi |-> (val.hi * Pow2(n) + (low \div 65536)) % 65536,
       lo |-> low % 65536]

\* (val >> n) & mask for n <= 16 and mask <= 0xFF: bits n .. n+7 of val
ShiftRightAnd(val, n, mask) ==
  ((val.lo \div Pow2(n)) + (val.hi % 256) * Pow2(16 - n)) % (mask + 1)

\* encodeBase64: while (valb >= 0) { out.push_back(...); valb -= 6; }
RECURSIVE EncodeDrain(_)
EncodeDrain(st) ==
  IF st.valb < 0 THEN st
  ELSE EncodeDrain([val |-> st.val, valb |-> st.valb - 6,
                    out |-> Append(st.out,
                              b64_chars[ShiftRightAnd(st.val, st.valb, 63) + 1])])

\* encodeBase64: the loop over the input bytes
RECURSIVE EncodeLoop(_)
EncodeLoop(in) ==
  IF in = << >> THEN [val |-> ZeroInt, valb |-> -6, out |-> << >>]
  ELSE LET st == EncodeLoop(SubSeq(in, 1, Len(in) - 1))
           c == in[Len(in)]
       IN  EncodeDrain([val |-> ShiftLeftAdd(st.val, 8, c),
                        valb |-> st.valb + 8, out |-> st.out])

\* encodeBase64: while (out.size() % 4) out.push_back('=')
RECURSIVE PadTo4(_)
PadTo4(out) == IF Len(out) % 4 = 0 THEN out ELSE PadTo4(Append(out, PadChar))

\* encodeBase64(in)
encodeBase64(in) ==
  LET st == EncodeLoop(in)
      tail == IF st.valb > -6
              THEN Append(st.out,
                     b64_chars[ShiftRightAnd(ShiftLeftAdd(st.val, 8, 0),
                                             st.valb + 8, 63) + 1])
              ELSE st.out
  IN  PadTo4(tail)

\* decodeBase64: T[c], -1 for a character outside b64_chars
T(c) ==
  IF \E i \in 1 .. 64 : b64_chars[i] = c
  THEN (CHOOSE i \in 1 .. 64 : b64_chars[i] = c) - 1
  ELSE -1

\* decodeBase64: the loop over the input characters, left at the first
\* character outside the alphabet
RECURSIVE DecodeLoop(_)
DecodeLoop(in) ==
  IF in = << >>
  THEN [val |-> ZeroInt, valb |-> -8, out |-> << >>, stop |-> FALSE]
  ELSE LET st == DecodeLoop(SubSeq(in, 1, Len(in) - 1))
           c == in[Len(in)]
       IN  IF st.stop \/ T(c) = -1
           THEN [st EXCEPT !.stop = TRUE]
           ELSE LET val == ShiftLeftAdd(st.val, 6, T(c))
                    valb == st.valb + 6
                IN  IF valb >= 0
                    THEN [val |-> val, valb |-> valb - 8,
                          out |-> Append(st.out, ShiftRightAnd(val, valb, 255)),
                          stop |-> FALSE]
                    ELSE [val |-> val, valb |-> valb, out |-> st.out,
                          stop |-> FALSE]

\* decodeBase64(in)
decodeBase64(in) == DecodeLoop(in).out

\* a byte string about to be serialized into a column
InitArmor ==
  /\ EditIdle
  /\ AggIdle
  /\ pack = NewPackState
  /\ prows = << >>
  /\ pout = NoPack
  /\ dout = NoDecode
  /\ files = AllKeyFiles
  /\ made = 0
  /\ gc = NoContext
  /\ tpc = [t \in Threads |-> "idle"]
  /\ tctx = [t \in Threads |-> 0]
  /\ depth = 0
  /\ buffer = NoCt
  /\ gpc = [s \in Sessions |-> "idle"]
  /\ g_context = 0
  /\ g_kp = 0
  /\ g_context_initialized = FALSE
  /\ spc = [t \in Threads |-> NoSingularCall]
  /\ \E n \in 0 .. MaxBytes : \E b \in VecsOfLen(n, ByteVals) :
       armor = [in |-> b, out |-> << >>, back |-> << >>, pc |-> "new"]

\* encodeBase64(serialize...(x)) on the way into a column
ArmorEncode ==
  /\ armor.pc = "new"
  /\ armor' = [armor EXCEPT !.out = encodeBase64(armor.in), !.pc = "encoded"]
  /\ UNCHANGED << editVars, alive, sessionVars, codecVars, files, made,
                  ctxVars, depth, bufVars, singVars >>

\* decodeBase64(column) on the way back
ArmorDecode ==
  /\ armor.pc = "encoded"
  /\ armor' = [armor EXCEPT !.back = decodeBase64(armor.out), !.pc = "decoded"]
  /\ UNCHANGED << editVars, alive, sessionVars, codecVars, files, made,
                  ctxVars, depth, bufVars, singVars >>

NextArmor ==
  \/ ArmorEncode
  \/ ArmorDecode

SpecArmor == InitArmor /\ [][NextArmor]_vars

\* the base64 text of a byte string, computed on unbounded integers
RECURSIVE BitsOf(_)
BitsOf(bytes) ==
  IF bytes = << >> THEN << >>
  ELSE BitsOf(SubSeq(bytes, 1, Len(bytes) - 1)) \o
       [i \in 1 .. 8 |-> (bytes[Len(bytes)] \div Pow2(8 - i)) % 2]

\* the i-th group of six bits, zero bits past the end
Sextet(bits, i) ==
  LET b(j) == IF j <= Len(bits) THEN bits[j] ELSE 0
  IN  32 * b(6 * i - 5) + 16 * b(6 * i - 4) + 8 * b(6 * i - 3)
        + 4 * b(6 * i - 2) + 2 * b(6 * i - 1) + b(6 * i)

Base64Text(bytes) ==
  LET n == (8 * Len(bytes) + 5) \div 6
      m == 4 * ((Len(bytes) + 2) \div 3)
  IN  [i \in 1 .. m |->
         IF i <= n THEN b64_chars[Sextet(BitsOf(bytes), i) + 1] ELSE PadChar]

\* C28: decodeBase64(encodeBase64(b)) = b for byte strings of every length,
\* the armored text has a length that is a multiple of 4, and it is the
\* base64 text of b: the wrap of the 32-bit accumulator changes no output.
C28_ArmorRoundTrip ==
  /\ (armor.pc \in {"encoded", "decoded"}) =>
       /\ Len(armor.out) % 4 = 0
       /\ armor.out = Base64Text(armor.in)
  /\ (armor.pc = "decoded") => (armor.back = armor.in)

\* five 0xFF bytes: the accumulator has wrapped and gone negative
C28_Witness ==
  /\ armor.pc = "decoded"
  /\ armor.in = << 255, 255, 255, 255, 255 >>
  /\ armor.out = << 47, 47, 47, 47, 47, 47, 56, 61 >>
  /\ armor.back = armor.in

\* ------------------------------------------------------------------------
\* HERMES_PACK_ADD and HERMES_PACK_RMV called with SQL NULL arguments
\* ------------------------------------------------------------------------

\* what *reinterpret_cast<long long *>(nullptr) can be taken to yield by a
\* build in which the load does not fault
WildVals == {0, -1, 2}

\* the integer an argument read yields: its value, or for a NULL argument
\* (args->args[i] == nullptr) whatever the dereference produced
ReadInt(arg, wild) == IF arg.null THEN wild ELSE arg.val

\* HERMES_PACK_ADD(ct, val, index) with args->args[i] NULL for a SQL NULL.
\* A NULL ciphertext makes an empty string, which deserializeCiphertext
\* rejects inside the try.  A NULL val or index is dereferenced before any
\* check: the server takes a segmentation fault, which no catch stops, or
\* the call goes on with the value the load produced.
NullCallADD(ct, val, index) ==
  /\ alive
  /\ ct.kind = "null" \/ val.null \/ index.null
  /\ IF val.null \/ index.null
     THEN \/ /\ alive' = FALSE
             /\ last' = [op |-> "ADD_NULL", index |-> 0, k |-> slot_count,
                         val |-> 0, pre |-> ct.ct, res |-> NullResult]
          \/ \E wild \in WildVals :
               /\ alive' = alive
               /\ last' = [op |-> "ADD_NULL", index |-> ReadInt(index, wild),
                           k |-> slot_count, val |-> ReadInt(val, wild),
                           pre |-> ct.ct,
                           res |-> IF ct.kind = "null" THEN ErrorResult
                                   ELSE HERMES_PACK_ADD(ct.ct,
                                          ReadInt(val, wild),
                                          ReadInt(index, wild))]
     ELSE /\ alive' = alive
          /\ last' = [op |-> "ADD_NULL", index |-> index.val, k |-> slot_count,
                      val |-> val.val, pre |-> ct.ct, res |-> ErrorResult]
  /\ UNCHANGED << packed_ct, slot_count, sessionVars, envVars >>

\* HERMES_PACK_RMV(ct, index, k) with args->args[i] NULL for a SQL NULL
NullCallRMV(ct, index, k) ==
  /\ alive
  /\ ct.kind = "null" \/ index.null \/ k.null
  /\ IF index.null \/ k.null
     THEN \/ /\ alive' = FALSE
             /\ last' = [op |-> "RMV_NULL", index |-> 0, k |-> 0,
                         val |-> 0, pre |-> ct.ct, res |-> NullResult]
          \/ \E wild \in WildVals :
               /\ alive' = alive
               /\ last' = [op |-> "RMV_NULL", index |-> ReadInt(index, wild),
                           k |-> ReadInt(k, wild), val |-> 0, pre |-> ct.ct,
                           res |-> IF ct.kind = "null" THEN ErrorResult
                                   ELSE HERMES_PACK_RMV(ct.ct,
                                          ReadInt(index, wild),
                                          ReadInt(k, wild))]
     ELSE /\ alive' = alive
          /\ last' = [op |-> "RMV_NULL", index |-> index.val, k |-> k.val,
                      val |-> 0, pre |-> ct.ct, res |-> ErrorResult]
  /\ UNCHANGED << packed_ct, slot_count, sessionVars, envVars >>

\* the arguments of a call, each one possibly SQL NULL
NullableCt == {NullArg} \cup {CtArg(Pad(v)) : v \in VecsOfLen(2, InitVals)}
NullableVal == {NullInt} \cup {IntArg(v) : v \in InsertVals}
NullableIndex == {NullInt} \cup {IntArg(i) : i \in 0 .. BatchSize}
NullableK == {NullInt} \cup {IntArg(i) : i \in 1 .. BatchSize}

NextNull ==
  \/ \E ct \in NullableCt : \E val \in NullableVal :
       \E index \in NullableIndex : NullCallADD(ct, val, index)
  \/ \E ct \in NullableCt : \E index \in NullableIndex :
       \E k \in NullableK : NullCallRMV(ct, index, k)

SpecNull == InitPure /\ [][NextNull]_vars

\* C29: HERMES_PACK_ADD and HERMES_PACK_RMV called with a SQL NULL
\* ciphertext, value, index or k return NULL with the error flag set,
\* without reading the missing argument and without producing a ciphertext.
C29_NullArgsRejected ==
  (last.op \in {"ADD_NULL", "RMV_NULL"}) => (alive /\ last.res = ErrorResult)

\* ------------------------------------------------------------------------
\* Claims about the content of the packed row
\* ------------------------------------------------------------------------

\* the values in slots [0, k)
LiveSlots(ct, k) == SubSeq(ct, 1, k)

====
